---- MODULE Spec2Model ----
(***************************************************************************)
(* claude-mcp-init: the two command-line flows that configure a project    *)
(* for MCP servers (cli.py -> MCPInitCore.initialize_project, and the      *)
(* main.py cli), the ConfigManager they write files with, and the plugin   *)
(* registry they select modules from.                                      *)
(*                                                                         *)
(* Text files are sequences of one-character strings, so that strip,       *)
(* split, sorted and join are computed the way Python computes them.       *)
(***************************************************************************)
EXTENDS Naturals, Sequences, FiniteSets, TLC

VARIABLES
    flow,        \* which entry point runs: "core", "main" or "config_manager"
    heap,        \* the dict objects of a _deep_merge call, by address
    registry,    \* PluginManager.plugins: the registered names, in insertion order
    req_ok,      \* per registered plugin: what its validate_requirements answers
    config_ok,   \* per registered plugin: what its validate_config answers
    config,      \* the inputs of the run (command line / config dictionary)
    fs,          \* the project directory on disk
    fs0,         \* the project directory before the run
    pc,          \* position of the run in its handler
    idx,         \* loop index of the handler's current loop
    modules,     \* the requested module names (a list)
    enabled,     \* enabled_plugins / active_plugins: dict keys in insertion order
    env_vars,    \* accumulated environment variables: an ordered mapping
    mcp_config,  \* ConfigManager.mcp_config["mcpServers"]
    returned,    \* what get_mcp_json_section returned to the run, per module
    log,         \* the plugin calls and file writes made so far, in order
    errors,      \* the error list validate_all_requirements returned
    exit_code,   \* the exit code of the process, once pc = "done"
    message,     \* the error reported: its kind and the module names it holds
    hist         \* what the first of two calls left: .gitignore after the first
                 \* update_gitignore, or the files and answers of a first run

vars == <<flow, heap, registry, req_ok, config_ok, config, fs, fs0, pc, idx, modules,
          enabled, env_vars, mcp_config, returned, log, errors, exit_code, message,
          hist>>

----------------------------------------------------------------------------
(* Bounds of the model *)

\* longest requested module list (items of --mcp, or config['modules'])
MaxModules == 2
\* longest initial .gitignore, in characters, of the update_gitignore runs
MaxFileLen == 3
\* longest pattern list given to update_gitignore
MaxPatterns == 2
\* longest of the short project names given to validate_project_name
MaxNameLen == 3
\* most reload_plugin calls made on one PluginManager
MaxReloads == 2
\* largest number held by the JSON contents given to merge_json_file
MaxScalar == 1
\* longest version string given to validate_version_format, in characters
MaxVersionLen == 6

----------------------------------------------------------------------------
(* Strings as Python sees them *)

\* code points of the characters the model uses (for sorted())
CodePoint ==
    [c \in {"\n", " ", "*", ".", "/", "D", "S", "_", "a", "b", "c", "d", "e",
            "h", "l", "m", "n", "o", "p", "r", "s", "t", "u", "v", "y"} |->
       CASE c = "\n" -> 10  [] c = " " -> 32  [] c = "*" -> 42  [] c = "." -> 46
         [] c = "/" -> 47   [] c = "D" -> 68  [] c = "S" -> 83  [] c = "_" -> 95
         [] c = "a" -> 97   [] c = "b" -> 98  [] c = "c" -> 99  [] c = "d" -> 100
         [] c = "e" -> 101  [] c = "h" -> 104 [] c = "l" -> 108 [] c = "m" -> 109
         [] c = "n" -> 110  [] c = "o" -> 111 [] c = "p" -> 112 [] c = "r" -> 114
         [] c = "s" -> 115  [] c = "t" -> 116 [] c = "u" -> 117 [] c = "v" -> 118
         [] c = "y" -> 121]

IsSpace(c) == c \in {" ", "\n"}

Range(s) == {s[i] : i \in DOMAIN s}

\* str.strip(): whitespace removed from both ends of the whole text
RECURSIVE LStrip(_)
LStrip(s) == IF s # <<>> /\ IsSpace(Head(s)) THEN LStrip(Tail(s)) ELSE s

RECURSIVE RStrip(_)
RStrip(s) ==
    IF s # <<>> /\ IsSpace(s[Len(s)]) THEN RStrip(SubSeq(s, 1, Len(s) - 1)) ELSE s

Strip(s) == RStrip(LStrip(s))

\* str.split("\n"): always at least one piece; "" splits into [""]
RECURSIVE SplitFrom(_, _)
SplitFrom(s, cur) ==
    IF s = <<>> THEN <<cur>>
    ELSE IF Head(s) = "\n" THEN <<cur>> \o SplitFrom(Tail(s), <<>>)
    ELSE SplitFrom(Tail(s), Append(cur, Head(s)))

Split(s) == SplitFrom(s, <<>>)

\* str < str: lexicographic by code point, a proper prefix first
RECURSIVE StrLess(_, _)
StrLess(s, t) ==
    IF t = <<>> THEN FALSE
    ELSE IF s = <<>> THEN TRUE
    ELSE IF Head(s) = Head(t) THEN StrLess(Tail(s), Tail(t))
    ELSE CodePoint[Head(s)] < CodePoint[Head(t)]

\* sorted(set of str)
RECURSIVE Sorted(_)
Sorted(S) ==
    IF S = {} THEN <<>>
    ELSE LET m == CHOOSE x \in S : \A y \in S \ {x} : StrLess(x, y)
         IN  <<m>> \o Sorted(S \ {m})

\* "\n".join(list of str)
RECURSIVE Join(_)
Join(ls) ==
    IF ls = <<>> THEN <<>>
    ELSE IF Len(ls) = 1 THEN ls[1]
    ELSE ls[1] \o <<"\n">> \o Join(Tail(ls))

----------------------------------------------------------------------------
(* ConfigManager.update_gitignore *)

\* a text file of the project directory: absent, or its characters
AbsentFile == [exists |-> FALSE, text |-> <<>>]
TextFile(t) == [exists |-> TRUE, text |-> t]

\* existing = set(read_text().strip().split("\n")) if the file exists else set()
ExistingLines(file) ==
    IF file.exists THEN Range(Split(Strip(file.text))) ELSE {}

update_gitignore(file, patterns) ==
    TextFile(Join(Sorted(ExistingLines(file) \cup Range(patterns))) \o <<"\n">>)

----------------------------------------------------------------------------
(* Plugins and the registry *)

\* the module directories shipped under mcp_modules/
PluginDirs == {"serena", "cipher", "__pycache__"}

\* names a run may ask for; "bogus" is never a plugin directory
RequestNames == {"serena", "cipher", "bogus"}

\* what loading a directory comes to: the import of <dir>.plugin fails, the
\* module holds no MCPModule subclass, the class fails to instantiate, or an
\* instance is made; and the metadata name that instance declares
LoadOutcomes == {"import_error", "no_class", "init_error", "ok"}

\* a directory whose name starts with "__"
IsReserved(dir) == dir = "__pycache__"

World(outcome, name) == [outcome |-> outcome, name |-> name]

\* the plugin directories as they may be found: any outcome for each
\* directory, whose instance declares one of the module names; the reserved
\* directory would load if it were tried
Worlds ==
    {World(o, n) :
        o \in {f \in [PluginDirs -> LoadOutcomes] : f["__pycache__"] = "ok"},
        n \in {f \in [PluginDirs -> {"serena", "cipher", "__pycache__"}] :
                  /\ f["__pycache__"] = "__pycache__"
                  /\ \A d \in PluginDirs \ {"__pycache__"} : f[d] # "__pycache__"}}

\* the shipped plugins declare the name of their directory
ShippedWorlds == {w \in Worlds : \A d \in PluginDirs : w.name[d] = d}

\* a registry entry: the key, and the instance stored under it (the directory
\* its class came from and the number of the instantiation)
Entry(key, dir, id) == [key |-> key, dir |-> dir, id |-> id]

Keys(plugins) == [i \in DOMAIN plugins |-> plugins[i].key]

\* self.plugins[key] = instance: a present key keeps its place in the dict
DictSet(plugins, e) ==
    IF e.key \in Range(Keys(plugins))
    THEN [i \in DOMAIN plugins |-> IF plugins[i].key = e.key THEN e ELSE plugins[i]]
    ELSE Append(plugins, e)

\* del self.plugins[key]
DictDel(plugins, key) == SelectSeq(plugins, LAMBDA e : e.key # key)

\* _load_plugin with the instance registered under the directory name
_load_plugin_by_directory(plugins, plugin_name, world, id) ==
    IF plugin_name \in DOMAIN world.outcome /\ world.outcome[plugin_name] = "ok"
    THEN DictSet(plugins, Entry(plugin_name, plugin_name, id))
    ELSE plugins

\* _load_plugin(plugin_name): the registry after trying to load one directory:
\* a directory that is not there cannot be imported; every failure is caught;
\* the instance registers under its metadata name
_load_plugin(plugins, plugin_name, world, id) ==
    IF plugin_name \in DOMAIN world.outcome /\ world.outcome[plugin_name] = "ok"
    THEN DictSet(plugins, Entry(world.name[plugin_name], plugin_name, id))
    ELSE plugins

\* a discovery that gives up at the first directory that fails to load
RECURSIVE _discover_and_load_plugins_until_failure(_, _)
_discover_and_load_plugins_until_failure(order, world) ==
    IF order = <<>> THEN <<>>
    ELSE LET front == SubSeq(order, 1, Len(order) - 1)
             before == _discover_and_load_plugins_until_failure(front, world)
         IN  IF \E i \in DOMAIN front :
                    ~IsReserved(front[i]) /\ world.outcome[front[i]] # "ok"
             THEN before
             ELSE IF IsReserved(order[Len(order)]) THEN before
             ELSE _load_plugin(before, order[Len(order)], world, Len(order))

\* _discover_and_load_plugins on the empty registry of the constructor: every
\* directory in iterdir() order, skipping "__*"
RECURSIVE _discover_and_load_plugins(_, _)
_discover_and_load_plugins(order, world) ==
    IF order = <<>> THEN <<>>
    ELSE LET before == _discover_and_load_plugins(SubSeq(order, 1, Len(order) - 1), world)
         IN  IF IsReserved(order[Len(order)]) THEN before
             ELSE _load_plugin(before, order[Len(order)], world, Len(order))

\* iterdir() gives the directories in an order the file system chooses
DirOrders ==
    {o \in [1..Cardinality(PluginDirs) -> PluginDirs] : Range(o) = PluginDirs}

\* reload_plugin(name): the registry it leaves and the boolean it returns
reload_plugin(plugins, name, world, id) ==
    IF name \in Range(Keys(plugins))
    THEN LET after == _load_plugin(DictDel(plugins, name), name, world, id)
         IN  [plugins |-> after, result |-> name \in Range(Keys(after))]
    ELSE [plugins |-> plugins, result |-> FALSE]

\* the registries of the runs: the keys, in insertion order, that discovery
\* of the shipped plugins gives
Registries ==
    {Keys(_discover_and_load_plugins(o, w)) : o \in DirOrders, w \in ShippedWorlds}

\* PluginManager.get_plugin(name): the instance, or None
get_plugin(name) == name \in Range(registry)

\* a dict assignment d[k] = v on the key order of d
DictAdd(keys, k) == IF k \in Range(keys) THEN keys ELSE Append(keys, k)

\* get_enabled_plugins keeping every requested name, found or not
RECURSIVE get_enabled_plugins_unfiltered(_)
get_enabled_plugins_unfiltered(names) ==
    IF names = <<>> THEN <<>>
    ELSE DictAdd(get_enabled_plugins_unfiltered(SubSeq(names, 1, Len(names) - 1)),
                 names[Len(names)])

\* PluginManager.get_enabled_plugins(module_names): found modules only, keyed
\* in the order the names are requested
RECURSIVE get_enabled_plugins(_)
get_enabled_plugins(names) ==
    IF names = <<>> THEN <<>>
    ELSE LET rest == get_enabled_plugins(SubSeq(names, 1, Len(names) - 1))
             n    == names[Len(names)]
         IN  IF get_plugin(n) THEN DictAdd(rest, n) ELSE rest

\* validate_all_requirements with the unknown names passed over in silence
RECURSIVE validate_all_requirements_known_only(_, _)
validate_all_requirements_known_only(names, reqOk) ==
    IF names = <<>> THEN <<>>
    ELSE LET n == Head(names)
             rest == validate_all_requirements_known_only(Tail(names), reqOk)
         IN  IF get_plugin(n) /\ ~reqOk[n] THEN <<n>> \o rest ELSE rest

\* validate_all_requirements giving up at its first error
RECURSIVE validate_all_requirements_first_only(_, _)
validate_all_requirements_first_only(names, reqOk) ==
    IF names = <<>> THEN <<>>
    ELSE IF get_plugin(Head(names)) /\ reqOk[Head(names)]
         THEN validate_all_requirements_first_only(Tail(names), reqOk)
         ELSE <<Head(names)>>

\* PluginManager.validate_all_requirements(module_names), given what each
\* plugin's validate_requirements answers: the names the error list holds, in
\* request order (an unknown name gives "Plugin <name> not found")
RECURSIVE validate_all_requirements(_, _)
validate_all_requirements(names, reqOk) ==
    IF names = <<>> THEN <<>>
    ELSE LET n == Head(names)
             rest == validate_all_requirements(Tail(names), reqOk)
         IN  IF get_plugin(n)
             THEN IF reqOk[n] THEN rest ELSE <<n>> \o rest
             ELSE <<n>> \o rest

----------------------------------------------------------------------------
(* What a plugin may answer (the module contract of base.py) *)

EmptyMap == [k \in {} |-> ""]

\* get_env_variables: an ordered mapping, given as <<key, value>> pairs
EnvKey(p) == IF p = "serena" THEN "SERENA_HOME" ELSE "OPENAI_API_KEY"

EnvChoices(p) ==
    {<<>>, <<[key |-> EnvKey(p), value |-> "sk-test"]>>,
           <<[key |-> EnvKey(p), value |-> ""]>>}

\* get_mcp_json_section: a launch descriptor, or the empty dict
NewSection(p) ==
    [command |-> p, args |-> <<<<"--project">>, <<"{project_path}">>>>]

SectionChoices(p) == {EmptyMap, NewSection(p)}

\* dict.update on an ordered mapping: a present key keeps its place
RECURSIVE DictUpdate(_, _)
DictUpdate(d, u) ==
    IF u = <<>> THEN d
    ELSE LET e == Head(u)
             d1 == IF \E i \in DOMAIN d : d[i].key = e.key
                   THEN [i \in DOMAIN d |-> IF d[i].key = e.key THEN e ELSE d[i]]
                   ELSE Append(d, e)
         IN  DictUpdate(d1, Tail(u))

----------------------------------------------------------------------------
(* The project directory *)

AbsProjectPath == "/abs/project"

\* .env
AbsentEnv == [exists |-> FALSE, header |-> "", lines |-> <<>>]
OldEnv == [exists |-> TRUE, header |-> "user",
           lines |-> <<[key |-> "OPENAI_API_KEY", value |-> "sk-old"]>>]

\* .mcp.json: absent, not JSON, or a JSON value.  A JSON value that is not an
\* object is a scalar (number, null, true) or a sequence (list, string) that
\* holds or does not hold the member "mcpServers"; an object has or has not the
\* key "mcpServers", whose value is a mapping of server entries or is not, and
\* other top-level keys.
McpFile(kind, hasKey, isMap, servers, other) ==
    [kind |-> kind, hasKey |-> hasKey, isMap |-> isMap, servers |-> servers,
     other |-> other]

AbsentMcp == McpFile("absent", FALSE, FALSE, EmptyMap, EmptyMap)
CorruptMcp == McpFile("corrupt", FALSE, FALSE, EmptyMap, EmptyMap)
ScalarMcp == McpFile("scalar", FALSE, FALSE, EmptyMap, EmptyMap)
SeqMcp(hasKey) == McpFile("seq", hasKey, FALSE, EmptyMap, EmptyMap)
ObjectMcp(servers, other) == McpFile("object", TRUE, TRUE, servers, other)

OldSection(n) == [command |-> "old", args |-> <<<<n>>>>]
OtherKeys == [version |-> "1"]
LegacyServers == [n \in {"legacy"} |-> OldSection(n)]
MixedServers == [n \in {"legacy", "serena"} |-> OldSection(n)]

\* the .mcp.json files a run of main.py may find
MainMcpFiles ==
    {AbsentMcp, CorruptMcp, ScalarMcp, SeqMcp(FALSE), SeqMcp(TRUE),
     McpFile("object", FALSE, FALSE, EmptyMap, OtherKeys),
     McpFile("object", TRUE, FALSE, EmptyMap, OtherKeys),
     ObjectMcp(LegacyServers, EmptyMap),
     ObjectMcp(MixedServers, OtherKeys)}

\* initialize_project never reads .mcp.json: fewer contents tell its runs apart
CoreMcpFiles == {AbsentMcp, ObjectMcp(LegacyServers, EmptyMap),
                 ObjectMcp(MixedServers, OtherKeys)}

\* MCP_SETUP_INSTRUCTIONS.md: which generator wrote it, for which plugins
AbsentInstr == [exists |-> FALSE, by |-> "", plugins |-> <<>>]

\* the .gitignore files a run of initialize_project may find
CoreGitignores ==
    {AbsentFile, TextFile(<<>>), TextFile(<<"a", "\n", ".", "e", "n", "v", "\n">>)}

\* files: the names of the other entries of the directory
Dir(dir, files, env, mcp, instr, gitignore, generated) ==
    [dir |-> dir, files |-> files, env |-> env, mcp |-> mcp, instr |-> instr,
     gitignore |-> gitignore, generated |-> generated]

\* a project directory that does not exist yet holds nothing
NoDir == Dir(FALSE, {}, AbsentEnv, AbsentMcp, AbsentInstr, AbsentFile, {})

CoreDirs(in_place) ==
    {Dir(TRUE, {}, e, m, AbsentInstr, g, {}) :
        e \in {AbsentEnv, OldEnv}, m \in CoreMcpFiles, g \in CoreGitignores}
    \cup (IF in_place THEN {} ELSE {NoDir})

\* dangerous_files of _check_in_place_safety
dangerous_files ==
    {"package.json", "requirements.txt", "Cargo.toml", "go.mod", "pom.xml",
     "build.gradle", "composer.json", ".git"}

\* what the current directory of an in-place run may hold besides the
\* generated files: nothing, a harmless file, one of the dangerous files
InPlaceEntries ==
    {{}, {"README.md"}, {"README.md", ".git"}} \cup {{f} : f \in dangerous_files}

\* the entries are only read in in-place mode
MainDirs(in_place) ==
    {Dir(TRUE, k, AbsentEnv, m, AbsentInstr, AbsentFile, {}) :
        k \in (IF in_place THEN InPlaceEntries ELSE {{}}), m \in MainMcpFiles}
    \cup (IF in_place THEN {} ELSE {NoDir})

----------------------------------------------------------------------------
(* Inputs of a run *)

Letters == {"a", "b", "c", "d", "e", "h", "l", "m", "n", "o", "p", "r", "s", "t",
            "u", "v", "y", "D", "S"}
Digits == {"0", "1", "2", "3", "4", "5", "6", "7", "8", "9"}

\* the {0,99} of the project-name pattern
MaxNameTail == 99

\* utils.validate_project_name: re.match of ^[a-zA-Z0-9][a-zA-Z0-9._-]{0,99}$,
\* where $ also matches just before one trailing newline
NameMatches(n) ==
    /\ n # <<>>
    /\ n[1] \in Letters \cup Digits
    /\ Len(n) - 1 <= MaxNameTail
    /\ \A i \in 2..Len(n) : n[i] \in Letters \cup Digits \cup {".", "_", "-"}

validate_project_name(n) ==
    \/ NameMatches(n)
    \/ n # <<>> /\ n[Len(n)] = "\n" /\ NameMatches(SubSeq(n, 1, Len(n) - 1))

\* the project names of the runs: one the pattern accepts, one it rejects
ProjectNames == {<<"a", "p", "p">>, <<".", "a">>}

DefaultModules == <<"serena", "cipher">>

SeqsUpTo(S, n) == UNION {[1..k -> S] : k \in 0..n}

\* an option that was not given, or the items of its comma-separated value
NotGiven == [given |-> FALSE, items |-> <<>>]
Given(items) == [given |-> TRUE, items |-> items]

\* config['modules'] of initialize_project: absent, or any list of names
CoreModuleArgs == {NotGiven} \cup {Given(l) : l \in SeqsUpTo(RequestNames, MaxModules)}

\* --mcp of main.py: absent (or empty), or its items between the commas; " " is
\* an item of white space only
McpItems == RequestNames \cup {" "}
MainMcpArgs ==
    {NotGiven} \cup {Given(l) : l \in SeqsUpTo(McpItems, MaxModules) \ {<<>>}}

\* m.strip() on an item
StripItem(m) == IF m = " " THEN "" ELSE m

\* [m.strip() for m in mcp.split(',') if m.strip()]
RECURSIVE StripAndFilter(_)
StripAndFilter(items) ==
    IF items = <<>> THEN <<>>
    ELSE IF StripItem(Head(items)) # ""
         THEN <<StripItem(Head(items))>> \o StripAndFilter(Tail(items))
         ELSE StripAndFilter(Tail(items))

ParseModules(mcp) == IF mcp.given THEN StripAndFilter(mcp.items) ELSE DefaultModules

Config(mode, name, in_place, mcp) ==
    [mode |-> mode, project_name |-> name, in_place |-> in_place, mcp |-> mcp]

NoMessage == [kind |-> "none", names |-> {}]
Msg(kind, names) == [kind |-> kind, names |-> names]

Ev(op, p) == [op |-> op, plugin |-> p]

MapPut(f, k, v) == [x \in DOMAIN f \cup {k} |-> IF x = k THEN v ELSE f[x]]

InitRun ==
    /\ fs0 = fs
    /\ heap = <<>>
    /\ pc = "start"
    /\ idx = 1
    /\ modules = <<>>
    /\ enabled = <<>>
    /\ env_vars = <<>>
    /\ mcp_config = EmptyMap
    /\ returned = EmptyMap
    /\ log = <<>>
    /\ errors = <<>>
    /\ exit_code = 0
    /\ message = NoMessage
    /\ hist = AbsentFile

\* cli.py hands initialize_project a config with a project name it took as given
InitCore ==
    /\ flow = "core"
    /\ registry \in Registries
    /\ req_ok \in [Range(registry) -> BOOLEAN]
    /\ config_ok \in [Range(registry) -> BOOLEAN]
    /\ \E ip \in BOOLEAN, m \in CoreModuleArgs :
          /\ config = Config("run", <<"a", "p", "p">>, ip, m)
          /\ fs \in CoreDirs(ip)
    /\ InitRun

InitMain ==
    /\ flow = "main"
    /\ registry \in Registries
    /\ req_ok \in [Range(registry) -> BOOLEAN]
    /\ config_ok \in [Range(registry) -> BOOLEAN]
    /\ \/ /\ config \in {Config(md, <<"a", "p", "p">>, FALSE, NotGiven) :
                            md \in {"version", "help_modules", "no_name"}}
          /\ fs = NoDir
       \/ \E n \in ProjectNames, ip \in BOOLEAN, m \in MainMcpArgs :
             /\ config = Config("run", n, ip, m)
             /\ fs \in MainDirs(ip)
    /\ InitRun

Init == InitCore \/ InitMain

\* the run ends: sys.exit(code), or an exception leaves the handler (code 1)
Exit(code, msg) ==
    /\ pc' = "done"
    /\ exit_code' = code
    /\ message' = msg

\* the next iteration of the current loop over seq, or the phase after it
Advance(seq, next) ==
    IF idx < Len(seq) THEN idx' = idx + 1 /\ pc' = pc
    ELSE idx' = 1 /\ pc' = next

----------------------------------------------------------------------------
(* ConfigManager: what the orchestrator writes *)

\* create_project_structure: mkdir unless in place or already there
create_project_structure(d, in_place) ==
    IF in_place THEN d ELSE [d EXCEPT !.dir = TRUE]

\* write_env_file: the header, then one KEY=VALUE line per entry of env_vars
write_env_file(envv) == [exists |-> TRUE, header |-> "core", lines |-> envv]

\* the {project_path} placeholder of an argument replaced by the absolute path
ReplacePlaceholder(arg) ==
    [i \in DOMAIN arg |-> IF arg[i] = "{project_path}" THEN AbsProjectPath ELSE arg[i]]

AbsoluteArgs(section) ==
    IF "args" \in DOMAIN section
    THEN [section EXCEPT !.args = [i \in DOMAIN section.args |->
                                      ReplacePlaceholder(section.args[i])]]
    ELSE section

\* write_mcp_json: json.dump of {"mcpServers": ...} over whatever was there
write_mcp_json(servers) ==
    ObjectMcp([n \in DOMAIN servers |-> AbsoluteArgs(servers[n])], EmptyMap)

\* write_setup_instructions(plugins)
write_setup_instructions(plugins) == [exists |-> TRUE, by |-> "core", plugins |-> plugins]

\* gitignore_patterns of initialize_project
GitignorePatterns ==
    << <<".", "e", "n", "v">>,
       <<"*", ".", "p", "y", "c">>,
       <<"_", "_", "p", "y", "c", "a", "c", "h", "e", "_", "_", "/">>,
       <<".", "D", "S", "_", "S", "t", "o", "r", "e">>,
       <<"n", "o", "d", "e", "_", "m", "o", "d", "u", "l", "e", "s", "/">>,
       <<".", "v", "e", "n", "v", "/">>,
       <<"v", "e", "n", "v", "/">> >>

----------------------------------------------------------------------------
(* MCPInitCore.initialize_project *)

CoreRunning == flow = "core" /\ pc # "done"

\* lines 38-55: read the config, make the project directory
CoreCreateStructure ==
    /\ CoreRunning /\ pc = "start"
    /\ modules' = IF config.mcp.given THEN config.mcp.items ELSE DefaultModules
    /\ fs' = create_project_structure(fs, config.in_place)
    /\ pc' = "get_enabled"
    /\ UNCHANGED <<flow, heap, registry, req_ok, config_ok, errors, config, fs0, idx, enabled, env_vars, mcp_config,
                   returned, log, exit_code, message, hist>>

\* lines 57-61: the enabled plugins, or ValueError when there is none
CoreGetEnabled ==
    /\ CoreRunning /\ pc = "get_enabled"
    /\ enabled' = get_enabled_plugins(modules)
    /\ IF enabled' = <<>>
       THEN Exit(1, Msg("no_valid_plugins", Range(modules)))
       ELSE pc' = "validate_requirements" /\ UNCHANGED <<exit_code, message>>
    /\ UNCHANGED <<flow, heap, registry, req_ok, config_ok, errors, config, fs, fs0, idx, modules, env_vars,
                   mcp_config, returned, log, hist>>

RequirementCalls(names) ==
    SelectSeq([i \in DOMAIN names |-> Ev("validate_requirements", names[i])],
              LAMBDA e : get_plugin(e.plugin))

\* lines 63-67: every requirement checked, RuntimeError listing all that fail
CoreValidateRequirements ==
    /\ CoreRunning /\ pc = "validate_requirements"
    /\ errors' = validate_all_requirements(modules, req_ok)
    /\ IF errors' # <<>>
       THEN Exit(1, Msg("requirements_not_met", Range(errors')))
       ELSE pc' = "pre_install" /\ UNCHANGED <<exit_code, message>>
    /\ log' = log \o RequirementCalls(modules)
    /\ UNCHANGED <<flow, heap, registry, req_ok, config_ok, config, fs, fs0, idx, modules,
                   enabled, env_vars, mcp_config, returned, hist>>

\* the pre-install loop left after its first hook
CorePreInstallFirstOnly ==
    /\ CoreRunning /\ pc = "pre_install"
    /\ log' = Append(log, Ev("pre_install_hook", enabled[idx]))
    /\ idx' = 1 /\ pc' = "configure"
    /\ UNCHANGED <<flow, heap, registry, req_ok, config_ok, errors, config, fs, fs0, modules, enabled, env_vars,
                   mcp_config, returned, exit_code, message, hist>>

\* lines 69-72: one pre_install_hook
CorePreInstall ==
    /\ CoreRunning /\ pc = "pre_install"
    /\ log' = Append(log, Ev("pre_install_hook", enabled[idx]))
    /\ Advance(enabled, "configure")
    /\ UNCHANGED <<flow, heap, registry, req_ok, config_ok, errors, config, fs, fs0, modules, enabled, env_vars,
                   mcp_config, returned, exit_code, message, hist>>

\* a rejected configuration that does not stop the plugin's generation
CoreConfigInvalidGoesOn ==
    /\ CoreRunning /\ pc = "configure" /\ ~config_ok[enabled[idx]]
    /\ log' = log \o <<Ev("validate_config", enabled[idx]),
                       Ev("generate_config_files", enabled[idx])>>
    /\ fs' = [fs EXCEPT !.generated = @ \cup {enabled[idx]}]
    /\ Advance(enabled, "write_env")
    /\ UNCHANGED <<flow, heap, registry, req_ok, config_ok, errors, config, fs0, modules,
                   enabled, env_vars, mcp_config, returned, exit_code, message, hist>>

\* lines 78-81: validate_config rejects the options: ValueError
CoreConfigInvalid ==
    /\ CoreRunning /\ pc = "configure" /\ ~config_ok[enabled[idx]]
    /\ log' = Append(log, Ev("validate_config", enabled[idx]))
    /\ Exit(1, Msg("invalid_configuration", {enabled[idx]}))
    /\ UNCHANGED <<flow, heap, registry, req_ok, config_ok, errors, config, fs, fs0, idx, modules, enabled, env_vars,
                   mcp_config, returned, hist>>

\* line 84: generate_config_files raises
CoreGenerateRaises ==
    /\ CoreRunning /\ pc = "configure" /\ config_ok[enabled[idx]]
    /\ log' = log \o <<Ev("validate_config", enabled[idx]),
                       Ev("generate_config_files", enabled[idx])>>
    /\ Exit(1, Msg("generate_failed", {enabled[idx]}))
    /\ UNCHANGED <<flow, heap, registry, req_ok, config_ok, errors, config, fs, fs0, idx, modules, enabled, env_vars,
                   mcp_config, returned, hist>>

\* lines 75-93: one plugin configured: its files, its variables, its server
CoreConfigure ==
    /\ CoreRunning /\ pc = "configure" /\ config_ok[enabled[idx]]
    /\ LET p == enabled[idx] IN
       /\ log' = log \o <<Ev("validate_config", p), Ev("generate_config_files", p),
                          Ev("get_env_variables", p), Ev("get_mcp_json_section", p)>>
       /\ fs' = [fs EXCEPT !.generated = @ \cup {p}]
       /\ \E env \in EnvChoices(p) : env_vars' = DictUpdate(env_vars, env)
       /\ \E section \in SectionChoices(p) :
             /\ returned' = MapPut(returned, p, section)
             /\ mcp_config' = IF DOMAIN section # {}
                              THEN MapPut(mcp_config, p, section) ELSE mcp_config
    /\ Advance(enabled, "write_env")
    /\ UNCHANGED <<flow, heap, registry, req_ok, config_ok, errors, config, fs0, modules, enabled, exit_code,
                   message, hist>>

\* line 96
CoreWriteEnv ==
    /\ CoreRunning /\ pc = "write_env"
    /\ fs' = [fs EXCEPT !.env = write_env_file(env_vars)]
    /\ log' = Append(log, Ev("write_env_file", "-"))
    /\ pc' = "write_mcp"
    /\ UNCHANGED <<flow, heap, registry, req_ok, config_ok, errors, config, fs0, idx, modules, enabled, env_vars,
                   mcp_config, returned, exit_code, message, hist>>

\* line 97
CoreWriteMcpJson ==
    /\ CoreRunning /\ pc = "write_mcp"
    /\ fs' = [fs EXCEPT !.mcp = write_mcp_json(mcp_config)]
    /\ log' = Append(log, Ev("write_mcp_json", "-"))
    /\ pc' = "write_instructions"
    /\ UNCHANGED <<flow, heap, registry, req_ok, config_ok, errors, config, fs0, idx, modules, enabled, env_vars,
                   mcp_config, returned, exit_code, message, hist>>

\* line 98
CoreWriteInstructions ==
    /\ CoreRunning /\ pc = "write_instructions"
    /\ fs' = [fs EXCEPT !.instr = write_setup_instructions(enabled)]
    /\ log' = Append(log, Ev("write_setup_instructions", "-"))
    /\ pc' = "update_gitignore"
    /\ UNCHANGED <<flow, heap, registry, req_ok, config_ok, errors, config, fs0, idx, modules, enabled, env_vars,
                   mcp_config, returned, exit_code, message, hist>>

\* lines 100-110
CoreUpdateGitignore ==
    /\ CoreRunning /\ pc = "update_gitignore"
    /\ fs' = [fs EXCEPT !.gitignore = update_gitignore(@, GitignorePatterns)]
    /\ log' = Append(log, Ev("update_gitignore", "-"))
    /\ pc' = "post_install"
    /\ UNCHANGED <<flow, heap, registry, req_ok, config_ok, errors, config, fs0, idx, modules, enabled, env_vars,
                   mcp_config, returned, exit_code, message, hist>>

\* lines 112-118: one post_install_hook; after the last, the success message
CorePostInstall ==
    /\ CoreRunning /\ pc = "post_install"
    /\ log' = Append(log, Ev("post_install_hook", enabled[idx]))
    /\ IF idx < Len(enabled)
       THEN idx' = idx + 1 /\ UNCHANGED <<pc, exit_code, message>>
       ELSE idx' = 1 /\ Exit(0, NoMessage)
    /\ UNCHANGED <<flow, heap, registry, req_ok, config_ok, errors, config, fs, fs0, modules, enabled, env_vars,
                   mcp_config, returned, hist>>

CoreNext ==
    \/ CoreCreateStructure
    \/ CoreGetEnabled
    \/ CoreValidateRequirements
    \/ CorePreInstall
    \/ CoreConfigInvalid
    \/ CoreGenerateRaises
    \/ CoreConfigure
    \/ CoreWriteEnv
    \/ CoreWriteMcpJson
    \/ CoreWriteInstructions
    \/ CoreUpdateGitignore
    \/ CorePostInstall

----------------------------------------------------------------------------
(* main.py: the cli command *)

MainRunning == flow = "main" /\ pc # "done"

\* a safety check that looks for the version-control directory only
_check_in_place_safety_git_only(d) == ".git" \in d.files

\* _check_in_place_safety: a dangerous file exists in the directory
_check_in_place_safety(d) == \E file_name \in dangerous_files : file_name \in d.files

\* cli with the in-place check made before the project name is validated
MainCliInPlaceFirst ==
    /\ MainRunning /\ pc = "start"
    /\ IF config.mode \in {"version", "help_modules", "no_name"}
       THEN Exit(0, NoMessage) /\ UNCHANGED modules
       ELSE IF config.in_place /\ _check_in_place_safety(fs)
       THEN Exit(1, Msg("in_place_unsafe", {})) /\ UNCHANGED modules
       ELSE IF ~validate_project_name(config.project_name)
       THEN Exit(1, Msg("invalid_project_name", {})) /\ UNCHANGED modules
       ELSE /\ modules' = ParseModules(config.mcp)
            /\ pc' = IF modules' = <<>> THEN "ensure_directory" ELSE "validate"
            /\ UNCHANGED <<exit_code, message>>
    /\ UNCHANGED <<flow, heap, registry, req_ok, config_ok, errors, config, fs, fs0, idx,
                   enabled, env_vars, mcp_config, returned, log, hist>>

\* lines 75-122 of cli: the flags, the project name, the in-place check, --mcp
MainCli ==
    /\ MainRunning /\ pc = "start"
    /\ IF config.mode \in {"version", "help_modules", "no_name"}
       THEN Exit(0, NoMessage) /\ UNCHANGED modules
       ELSE IF ~validate_project_name(config.project_name)
       THEN Exit(1, Msg("invalid_project_name", {})) /\ UNCHANGED modules
       ELSE IF config.in_place /\ _check_in_place_safety(fs)
       THEN Exit(1, Msg("in_place_unsafe", {})) /\ UNCHANGED modules
       ELSE /\ modules' = ParseModules(config.mcp)
            /\ pc' = IF modules' = <<>> THEN "ensure_directory" ELSE "validate"
            /\ UNCHANGED <<exit_code, message>>
    /\ UNCHANGED <<flow, heap, registry, req_ok, config_ok, errors, config, fs, fs0, idx, enabled, env_vars,
                   mcp_config, returned, log, hist>>

\* _validate_plugin_requirements, one module of the list: exit at the first
\* unknown module or unmet requirement
MainValidateUnknown ==
    /\ MainRunning /\ pc = "validate"
    /\ modules[idx] \notin Range(registry)
    /\ Exit(1, Msg("unknown_module", {modules[idx]}))
    /\ UNCHANGED <<flow, heap, registry, req_ok, config_ok, errors, config, fs, fs0, idx, modules, enabled, env_vars,
                   mcp_config, returned, log, hist>>

MainValidateRequirement ==
    /\ MainRunning /\ pc = "validate"
    /\ modules[idx] \in Range(registry)
    /\ log' = Append(log, Ev("validate_requirements", modules[idx]))
    /\ IF req_ok[modules[idx]]
       THEN Advance(modules, "ensure_directory") /\ UNCHANGED <<exit_code, message>>
       ELSE Exit(1, Msg("requirements_not_met", {modules[idx]})) /\ UNCHANGED idx
    /\ UNCHANGED <<flow, heap, registry, req_ok, config_ok, errors, config, fs, fs0, modules,
                   enabled, env_vars, mcp_config, returned, hist>>

\* utils.ensure_directory: mkdir(parents=True, exist_ok=True)
ensure_directory(d) == [d EXCEPT !.dir = TRUE]

\* _generate_configuration lines 189-191
MainEnsureDirectory ==
    /\ MainRunning /\ pc = "ensure_directory"
    /\ fs' = IF config.in_place THEN fs ELSE ensure_directory(fs)
    /\ pc' = IF modules = <<>> THEN "generate_mcp_json" ELSE "load"
    /\ UNCHANGED <<flow, heap, registry, req_ok, config_ok, errors, config, fs0, idx, modules, enabled, env_vars,
                   mcp_config, returned, log, exit_code, message, hist>>

\* lines 196-202, one module of the list: into active_plugins, its pre-install hook
MainLoadPlugin ==
    /\ MainRunning /\ pc = "load"
    /\ IF modules[idx] \in Range(registry)
       THEN /\ enabled' = DictAdd(enabled, modules[idx])
            /\ log' = Append(log, Ev("pre_install_hook", modules[idx]))
       ELSE UNCHANGED <<enabled, log>>
    /\ Advance(modules, "generate")
    /\ UNCHANGED <<flow, heap, registry, req_ok, config_ok, errors, config, fs, fs0, modules, env_vars, mcp_config,
                   returned, exit_code, message, hist>>

\* lines 205-210, one active plugin: its files written
MainGenerate ==
    /\ MainRunning /\ pc = "generate" /\ enabled # <<>>
    /\ log' = Append(log, Ev("generate_config_files", enabled[idx]))
    /\ fs' = [fs EXCEPT !.generated = @ \cup {enabled[idx]}]
    /\ Advance(enabled, "generate_mcp_json")
    /\ UNCHANGED <<flow, heap, registry, req_ok, config_ok, errors, config, fs0, modules, enabled, env_vars,
                   mcp_config, returned, exit_code, message, hist>>

\* a generate_config_files that raises and is passed over
MainGenerateRaisesGoesOn ==
    /\ MainRunning /\ pc = "generate" /\ enabled # <<>>
    /\ log' = Append(log, Ev("generate_config_files", enabled[idx]))
    /\ message' = Msg("generate_failed", {enabled[idx]})
    /\ Advance(enabled, "generate_mcp_json")
    /\ UNCHANGED <<flow, heap, registry, req_ok, config_ok, errors, config, fs, fs0, modules,
                   enabled, env_vars, mcp_config, returned, exit_code, hist>>

\* ... or generate_config_files raises: the error is printed, exit 1
MainGenerateRaises ==
    /\ MainRunning /\ pc = "generate" /\ enabled # <<>>
    /\ log' = Append(log, Ev("generate_config_files", enabled[idx]))
    /\ Exit(1, Msg("generate_failed", {enabled[idx]}))
    /\ UNCHANGED <<flow, heap, registry, req_ok, config_ok, errors, config, fs, fs0, idx, modules, enabled, env_vars,
                   mcp_config, returned, hist>>

\* _generate_mcp_json lines 233-248: the configuration the entries are put in.
\* A file that is not JSON starts fresh; a JSON value that is not an object
\* makes `"mcpServers" not in` or the item assignment raise TypeError.
ExistingConfig(file) ==
    IF file.kind \in {"absent", "corrupt"}
    THEN McpFile("object", FALSE, FALSE, EmptyMap, EmptyMap)
    ELSE file

EnsureServers(cfg) ==
    IF cfg.kind = "object" /\ ~cfg.hasKey THEN ObjectMcp(EmptyMap, cfg.other) ELSE cfg

EnsureServersRaises(cfg) ==
    cfg.kind = "scalar" \/ (cfg.kind = "seq" /\ ~cfg.hasKey)

\* only the sections that are not empty put into the servers
RECURSIVE PutSectionsNotEmpty(_, _, _)
PutSectionsNotEmpty(servers, plugins, sections) ==
    IF plugins = <<>> THEN servers
    ELSE PutSectionsNotEmpty(
            IF DOMAIN sections[Head(plugins)] = {} THEN servers
            ELSE MapPut(servers, Head(plugins), sections[Head(plugins)]),
            Tail(plugins), sections)

\* lines 251-253: existing_config["mcpServers"][module_name] = server_config
RECURSIVE PutSections(_, _, _)
PutSections(servers, plugins, sections) ==
    IF plugins = <<>> THEN servers
    ELSE PutSections(MapPut(servers, Head(plugins), sections[Head(plugins)]),
                     Tail(plugins), sections)

PutSectionsRaises(cfg, plugins) ==
    plugins # <<>> /\ (cfg.kind = "seq" \/ ~cfg.isMap)

\* the whole of _generate_mcp_json: whether it raises, and the file it leaves
_generate_mcp_json(file, plugins, sections) ==
    LET cfg == EnsureServers(ExistingConfig(file))
    IN  IF EnsureServersRaises(ExistingConfig(file)) \/ PutSectionsRaises(cfg, plugins)
        THEN [raises |-> TRUE, file |-> file]
        ELSE [raises |-> FALSE,
              file |-> IF cfg.kind = "object" /\ cfg.isMap
                       THEN [cfg EXCEPT !.servers = PutSections(@, plugins, sections)]
                       ELSE cfg]

\* how many get_mcp_json_section calls it makes before it ends
SectionCalls(file, plugins) ==
    LET cfg == EnsureServers(ExistingConfig(file))
    IN  IF EnsureServersRaises(ExistingConfig(file)) THEN <<>>
        ELSE IF PutSectionsRaises(cfg, plugins) THEN <<plugins[1]>>
        ELSE plugins

MainGenerateMcpJson ==
    /\ MainRunning /\ pc = "generate_mcp_json"
    /\ \E sections \in [Range(enabled) -> UNION {SectionChoices(p) : p \in Range(enabled)}] :
          /\ \A p \in Range(enabled) : sections[p] \in SectionChoices(p)
          /\ LET r == _generate_mcp_json(fs.mcp, enabled, sections)
                 called == SectionCalls(fs.mcp, enabled)
             IN  /\ fs' = [fs EXCEPT !.mcp = r.file]
                 /\ returned' = [p \in Range(called) |-> sections[p]]
                 /\ log' = log \o [i \in DOMAIN called |->
                                      Ev("get_mcp_json_section", called[i])]
                           \o (IF r.raises THEN <<>> ELSE <<Ev("write_mcp_json", "-")>>)
                 /\ IF r.raises
                    THEN Exit(1, Msg("uncaught_type_error", {}))
                    ELSE pc' = "generate_env_file" /\ UNCHANGED <<exit_code, message>>
    /\ UNCHANGED <<flow, heap, registry, req_ok, config_ok, errors, config, fs0, idx, modules, enabled, env_vars,
                   mcp_config, hist>>

\* lines 277-279: only the entries whose value is not empty
TruthyLines(envv) == SelectSeq(envv, LAMBDA e : e.value # "")

\* _generate_env_file lines 271-282: no file at all when no variable was given
_generate_env_file(file, envv) ==
    IF envv # <<>>
    THEN [exists |-> TRUE, header |-> "main", lines |-> TruthyLines(envv)]
    ELSE file

RECURSIVE CollectEnv(_, _)
CollectEnv(plugins, envs) ==
    IF plugins = <<>> THEN <<>>
    ELSE DictUpdate(CollectEnv(SubSeq(plugins, 1, Len(plugins) - 1), envs),
                    envs[plugins[Len(plugins)]])

MainGenerateEnvFile ==
    /\ MainRunning /\ pc = "generate_env_file"
    /\ \E envs \in [Range(enabled) -> UNION {EnvChoices(p) : p \in Range(enabled)}] :
          /\ \A p \in Range(enabled) : envs[p] \in EnvChoices(p)
          /\ env_vars' = CollectEnv(enabled, envs)
    /\ fs' = [fs EXCEPT !.env = _generate_env_file(@, env_vars')]
    /\ log' = log \o [i \in DOMAIN enabled |-> Ev("get_env_variables", enabled[i])]
              \o (IF env_vars' # <<>> THEN <<Ev("write_env_file", "-")>> ELSE <<>>)
    /\ pc' = "generate_setup_instructions"
    /\ UNCHANGED <<flow, heap, registry, req_ok, config_ok, errors, config, fs0, idx, modules, enabled, mcp_config,
                   returned, exit_code, message, hist>>

\* _generate_setup_instructions
_generate_setup_instructions(plugins) ==
    [exists |-> TRUE, by |-> "main", plugins |-> plugins]

MainGenerateSetupInstructions ==
    /\ MainRunning /\ pc = "generate_setup_instructions"
    /\ fs' = [fs EXCEPT !.instr = _generate_setup_instructions(enabled)]
    /\ log' = Append(log, Ev("write_setup_instructions", "-"))
    /\ IF enabled = <<>>
       THEN Exit(0, NoMessage)
       ELSE pc' = "post_install" /\ UNCHANGED <<exit_code, message>>
    /\ UNCHANGED <<flow, heap, registry, req_ok, config_ok, errors, config, fs0, idx, modules, enabled, env_vars,
                   mcp_config, returned, hist>>

\* lines 222-225: one post_install_hook; after the last, the success message
MainPostInstall ==
    /\ MainRunning /\ pc = "post_install"
    /\ log' = Append(log, Ev("post_install_hook", enabled[idx]))
    /\ IF idx < Len(enabled)
       THEN idx' = idx + 1 /\ UNCHANGED <<pc, exit_code, message>>
       ELSE idx' = 1 /\ Exit(0, NoMessage)
    /\ UNCHANGED <<flow, heap, registry, req_ok, config_ok, errors, config, fs, fs0, modules, enabled, env_vars,
                   mcp_config, returned, hist>>

MainNext ==
    \/ MainCli
    \/ MainValidateUnknown
    \/ MainValidateRequirement
    \/ MainEnsureDirectory
    \/ MainLoadPlugin
    \/ MainGenerate
    \/ MainGenerateRaises
    \/ MainGenerateMcpJson
    \/ MainGenerateEnvFile
    \/ MainGenerateSetupInstructions
    \/ MainPostInstall

Next == CoreNext \/ MainNext

Spec == Init /\ [][Next]_vars

----------------------------------------------------------------------------
(* ConfigManager.update_gitignore called on its own, twice with the same patterns *)

GitChars == {"a", "b", " ", "\n"}

GitFiles == {AbsentFile} \cup {TextFile(t) : t \in SeqsUpTo(GitChars, MaxFileLen)}

GitPatternPool == {<<"a">>, <<"b">>, <<"a", "b">>}

GitInit ==
    /\ flow = "config_manager"
    /\ registry = <<>>
    /\ req_ok = EmptyMap
    /\ config_ok = EmptyMap
    /\ \E ps \in SeqsUpTo(GitPatternPool, MaxPatterns) :
          config = [mode |-> "update_gitignore", patterns |-> ps]
    /\ \E g \in GitFiles :
          fs = Dir(TRUE, {}, AbsentEnv, AbsentMcp, AbsentInstr, g, {})
    /\ InitRun

UpdateGitignoreCall ==
    /\ flow = "config_manager" /\ pc \in {"start", "once"}
    /\ fs' = [fs EXCEPT !.gitignore = update_gitignore(@, config.patterns)]
    /\ hist' = IF pc = "start" THEN fs'.gitignore ELSE hist
    /\ pc' = IF pc = "start" THEN "once" ELSE "twice"
    /\ log' = Append(log, Ev("update_gitignore", "-"))
    /\ UNCHANGED <<flow, heap, registry, req_ok, config_ok, errors, config, fs0, idx, modules, enabled, env_vars,
                   mcp_config, returned, exit_code, message>>

GitNext == UpdateGitignoreCall

GitSpec == GitInit /\ [][GitNext]_vars

----------------------------------------------------------------------------
(* MCPInitCore.initialize_project run twice with the same configuration *)

FirstRun == "fs" \notin DOMAIN hist

\* a new process after a successful first run: a new ConfigManager, the same
\* config, registry and plugin answers, the directory as the first run left it
CoreRunAgain ==
    /\ flow = "core" /\ pc = "done" /\ exit_code = 0 /\ FirstRun
    /\ hist' = [fs |-> fs, env_vars |-> env_vars, returned |-> returned]
    /\ pc' = "start"
    /\ idx' = 1
    /\ modules' = <<>>
    /\ enabled' = <<>>
    /\ env_vars' = <<>>
    /\ mcp_config' = EmptyMap
    /\ returned' = EmptyMap
    /\ log' = <<>>
    /\ errors' = <<>>
    /\ message' = NoMessage
    /\ UNCHANGED <<flow, heap, registry, req_ok, config_ok, config, fs, fs0, exit_code>>

\* the modules are deterministic: in the second run every plugin answers
\* what it answered in the first
SameAnswers ==
    \/ FirstRun
    \/ /\ \A p \in DOMAIN returned : returned[p] = hist.returned[p]
       /\ Len(env_vars) <= Len(hist.env_vars)
       /\ env_vars = SubSeq(hist.env_vars, 1, Len(env_vars))

CoreRunStep == CoreNext /\ SameAnswers'

RerunNext == CoreRunStep \/ CoreRunAgain

RerunSpec == InitCore /\ [][RerunNext]_vars

----------------------------------------------------------------------------
(* A PluginManager: its construction, then reload_plugin calls *)

\* registry holds the entries (key and instance); hist is the registry before
\* the last reload_plugin, returned the boolean it gave back
PmInit ==
    /\ flow = "plugin_manager"
    /\ registry = <<>>
    /\ req_ok = EmptyMap
    /\ config_ok = EmptyMap
    /\ \E w \in Worlds, o \in DirOrders :
          config = [mode |-> "plugin_manager", world |-> w, order |-> o]
    /\ fs = NoDir
    /\ InitRun

\* PluginManager.__init__
PmConstruct ==
    /\ flow = "plugin_manager" /\ pc = "start"
    /\ registry' = _discover_and_load_plugins(config.order, config.world)
    /\ pc' = "constructed"
    /\ UNCHANGED <<flow, heap, req_ok, config_ok, errors, config, fs, fs0, idx, modules,
                   enabled, env_vars, mcp_config, returned, log, exit_code, message,
                   hist>>

PmReload ==
    /\ flow = "plugin_manager" /\ pc = "constructed"
    /\ Len(log) < MaxReloads
    /\ \E name \in RequestNames :
          LET r == reload_plugin(registry, name, config.world,
                                 Cardinality(PluginDirs) + Len(log) + 1)
          IN  /\ registry' = r.plugins
              /\ returned' = r.result
              /\ log' = Append(log, Ev("reload_plugin", name))
    /\ hist' = registry
    /\ UNCHANGED <<flow, heap, req_ok, config_ok, errors, config, fs, fs0, pc, idx,
                   modules, enabled, env_vars, mcp_config, exit_code, message>>

PmNext == PmConstruct \/ PmReload

PmSpec == PmInit /\ [][PmNext]_vars

----------------------------------------------------------------------------
(* ConfigManager.merge_json_file and _deep_merge *)

\* JSON contents: a number, or a mapping from keys to contents; mappings nest
\* one level below the top
Num(n) == [t |-> "num", v |-> n]
Mapping(f) == [t |-> "dict", v |-> f]

MergeKeys == {"x", "y"}

MappingsTo(values) == UNION {[S -> values] : S \in SUBSET MergeKeys}

Nums == {Num(n) : n \in 0..MaxScalar}

InnerMappings == MappingsTo(Nums)

OuterMappings == MappingsTo(Nums \cup {Mapping(f) : f \in InnerMappings})

\* the target file: absent, not JSON, a JSON list, or a JSON object
JsonFile(kind, content) == [kind |-> kind, content |-> content]

JsonFiles ==
    {JsonFile("absent", EmptyMap), JsonFile("corrupt", EmptyMap),
     JsonFile("list", EmptyMap)}
    \cup {JsonFile("object", f) : f \in OuterMappings}

\* Python objects: heap[a] is the dict at address a, whose slots hold a number
\* or a reference to another dict
Ref(a) == [t |-> "ref", v |-> a]

KeySeq(S) == SelectSeq(<<"x", "y">>, LAMBDA k : k \in S)

\* json.load of a mapping (or the caller's new_data): its dict objects, the
\* nested ones first
RECURSIVE AllocSlots(_, _, _)
AllocSlots(h, f, keys) ==
    IF keys = <<>> THEN [heap |-> h, cell |-> [k \in {} |-> Num(0)]]
    ELSE LET k == Head(keys)
             here == IF f[k].t = "dict"
                     THEN LET inner == AllocSlots(h, f[k].v, KeySeq(DOMAIN f[k].v))
                          IN  [heap |-> Append(inner.heap, inner.cell),
                               slot |-> Ref(Len(inner.heap) + 1)]
                     ELSE [heap |-> h, slot |-> f[k]]
             rest == AllocSlots(here.heap, f, Tail(keys))
         IN  [heap |-> rest.heap, cell |-> MapPut(rest.cell, k, here.slot)]

Alloc(h, f) ==
    LET made == AllocSlots(h, f, KeySeq(DOMAIN f))
    IN  [heap |-> Append(made.heap, made.cell), addr |-> Len(made.heap) + 1]

\* the content of the dict at an address, as json.dump writes it
RECURSIVE ValueAt(_, _)
ValueAt(h, a) ==
    [k \in DOMAIN h[a] |->
        IF h[a][k].t = "ref" THEN Mapping(ValueAt(h, h[a][k].v)) ELSE h[a][k]]

\* _deep_merge(base, update): result = base.copy() is a new dict; for each item
\* of update, a dict on both sides is merged recursively into a new dict and
\* anything else is assigned as it is
RECURSIVE MergeItems(_, _, _, _)
MergeItems(h, result, update, keys) ==
    IF keys = <<>> THEN h
    ELSE LET key == Head(keys)
             value == h[update][key]
             nested == /\ key \in DOMAIN h[result]
                       /\ h[result][key].t = "ref" /\ value.t = "ref"
             merged == IF nested
                       THEN LET copied == Append(h, h[h[result][key].v])
                                inner == MergeItems(copied, Len(copied), value.v,
                                                    KeySeq(DOMAIN h[value.v]))
                            IN  [heap |-> inner, slot |-> Ref(Len(copied))]
                       ELSE [heap |-> h, slot |-> value]
             h1 == [merged.heap EXCEPT ![result] = MapPut(@, key, merged.slot)]
         IN  MergeItems(h1, result, update, Tail(keys))

\* a merge that writes into base itself instead of a copy
_deep_merge_in_place(h, base, update) ==
    [heap |-> MergeItems(h, base, update, KeySeq(DOMAIN h[update])), result |-> base]

_deep_merge(h, base, update) ==
    LET copied == Append(h, h[base])
    IN  [heap |-> MergeItems(copied, Len(copied), update, KeySeq(DOMAIN h[update])),
         result |-> Len(copied)]

\* a merge_json_file that writes new_data over whatever the file held
merge_json_file_overwrite(file, new_data) ==
    [raises |-> file.kind \in {"corrupt", "list"},
     heap |-> Alloc(<<>>, new_data).heap,
     before |-> Alloc(<<>>, new_data).heap,
     base |-> Alloc(<<>>, new_data).addr,
     update |-> Alloc(<<>>, new_data).addr,
     result |-> Alloc(<<>>, new_data).addr,
     file |-> IF file.kind \in {"corrupt", "list"} THEN file
              ELSE JsonFile("object", new_data)]

\* merge_json_file(file_path, new_data): the file it leaves, whether it raises
\* (json.load of a file that is not JSON; item assignment by key on the copy
\* of a list, which an empty new_data never does), and the objects of its
\* _deep_merge call
merge_json_file(file, new_data) ==
    IF file.kind = "absent"
    THEN LET b == Alloc(<<>>, new_data)
         IN  [raises |-> FALSE, heap |-> b.heap, before |-> b.heap,
              base |-> b.addr, update |-> b.addr, result |-> b.addr,
              file |-> JsonFile("object", ValueAt(b.heap, b.addr))]
    ELSE IF file.kind \in {"corrupt", "list"}
    THEN LET b == Alloc(<<>>, new_data)
         IN  [raises |-> file.kind = "corrupt" \/ DOMAIN new_data # {}, heap |-> b.heap, before |-> b.heap,
              base |-> b.addr, update |-> b.addr, result |-> b.addr, file |-> file]
    ELSE LET a == Alloc(<<>>, file.content)
             b == Alloc(a.heap, new_data)
             m == _deep_merge(b.heap, a.addr, b.addr)
         IN  [raises |-> FALSE, heap |-> m.heap, before |-> b.heap,
              base |-> a.addr, update |-> b.addr, result |-> m.result,
              file |-> JsonFile("object", ValueAt(m.heap, m.result))]

MergeInit ==
    /\ flow = "merge_json_file"
    /\ registry = <<>>
    /\ req_ok = EmptyMap
    /\ config_ok = EmptyMap
    /\ \E new_data \in OuterMappings :
          config = [mode |-> "merge_json_file", new_data |-> new_data]
    /\ \E file \in JsonFiles : fs = [target |-> file]
    /\ InitRun

\* hist: the objects before the last _deep_merge call; returned: the
\* addresses of its arguments and of its result
MergeJsonFileCall ==
    /\ flow = "merge_json_file" /\ pc = "start"
    /\ \E r \in {merge_json_file(fs.target, config.new_data)} :
           /\ fs' = [target |-> r.file]
           /\ heap' = r.heap
           /\ hist' = r.before
           /\ returned' = [base |-> r.base, update |-> r.update, result |-> r.result]
           /\ IF r.raises
              THEN Exit(1, Msg("uncaught_exception", {}))
              ELSE /\ pc' = IF fs.target.kind = "object" THEN "merged" ELSE "written"
                   /\ UNCHANGED <<exit_code, message>>
    /\ log' = Append(log, Ev("merge_json_file", "-"))
    /\ UNCHANGED <<flow, registry, req_ok, config_ok, errors, config, fs0, idx,
                   modules, enabled, env_vars, mcp_config>>

\* _deep_merge(merged, update) once more, on the result of the first call
DeepMergeAgain ==
    /\ flow = "merge_json_file" /\ pc = "merged"
    /\ \E m \in {_deep_merge(heap, returned.result, returned.update)} :
           /\ heap' = m.heap
           /\ returned' = [base |-> returned.result, update |-> returned.update,
                           result |-> m.result]
    /\ hist' = heap
    /\ pc' = "twice"
    /\ log' = Append(log, Ev("_deep_merge", "-"))
    /\ UNCHANGED <<flow, registry, req_ok, config_ok, errors, config, fs, fs0, idx,
                   modules, enabled, env_vars, mcp_config, exit_code, message>>

MergeNext == MergeJsonFileCall \/ DeepMergeAgain

MergeSpec == MergeInit /\ [][MergeNext]_vars

----------------------------------------------------------------------------
(* VersionValidator.validate_version_format *)

\* the maximal run of digits of v that starts at position i ends before this
\* position (\d+ and \d* are followed by something that is not a digit)
RECURSIVE AfterDigits(_, _)
AfterDigits(v, i) ==
    IF i <= Len(v) /\ v[i] \in Digits THEN AfterDigits(v, i + 1) ELSE i

\* (-.*)?$ on the rest of the text: "." takes no newline, and "$" stands at
\* the end or before a newline that ends the text
TailMatches(t) ==
    LET EndOk(u) == u = <<>> \/ u = <<"\n">>
    IN  \/ EndOk(t)
        \/ /\ t # <<>> /\ Head(t) = "-"
           /\ \E k \in 1..Len(t) :
                 /\ \A j \in 2..k : t[j] # "\n"
                 /\ EndOk(SubSeq(t, k + 1, Len(t)))

\* ([ab]|rc\d*)? taken from position i: the position after it
AfterPrerelease(v, i) ==
    IF i <= Len(v) /\ v[i] \in {"a", "b"} THEN i + 1
    ELSE IF i + 1 <= Len(v) /\ v[i] = "r" /\ v[i + 1] = "c"
    THEN AfterDigits(v, i + 2)
    ELSE i

\* self.version_pattern.match(version) for ^\d+\.\d+\.\d+([ab]|rc\d*)?(-.*)?$
version_pattern(v) ==
    LET i1 == AfterDigits(v, 1)
        i2 == AfterDigits(v, i1 + 1)
        i3 == AfterDigits(v, i2 + 1)
    IN  /\ i1 > 1 /\ i1 <= Len(v) /\ v[i1] = "."
        /\ i2 > i1 + 1 /\ i2 <= Len(v) /\ v[i2] = "."
        /\ i3 > i2 + 1
        /\ \/ TailMatches(SubSeq(v, AfterPrerelease(v, i3), Len(v)))
           \/ TailMatches(SubSeq(v, i3, Len(v)))

\* version.split('.')
RECURSIVE SplitDotFrom(_, _)
SplitDotFrom(v, cur) ==
    IF v = <<>> THEN <<cur>>
    ELSE IF Head(v) = "." THEN <<cur>> \o SplitDotFrom(Tail(v), <<>>)
    ELSE SplitDotFrom(Tail(v), Append(cur, Head(v)))

\* int(part): white space around is dropped, then an optional sign and at
\* least one digit; anything else is a ValueError. negative: the value is
\* below zero
IntOf(part) ==
    LET t == Strip(part)
        signed == t # <<>> /\ Head(t) \in {"-", "+"}
        digits == IF signed THEN Tail(t) ELSE t
    IN  [ok |-> digits # <<>> /\ \A i \in 1..Len(digits) : digits[i] \in Digits,
         negative |-> /\ signed /\ Head(t) = "-"
                      /\ \E i \in 1..Len(digits) : digits[i] \in Digits \ {"0"}]

\* validate_version_format(version): (valid, error_message); major, minor,
\* patch = map(int, parts) is a ValueError unless there are three parts and
\* each is an integer
validate_version_format(v) ==
    LET parts == SplitDotFrom(v, <<>>)
        ints == [i \in 1..Len(parts) |-> IntOf(parts[i])]
    IN  IF v = <<>> THEN [valid |-> FALSE, error |-> "empty"]
        ELSE IF ~version_pattern(v) THEN [valid |-> FALSE, error |-> "no_match"]
        ELSE IF Len(parts) # 3 \/ \E i \in 1..Len(parts) : ~ints[i].ok
        THEN [valid |-> FALSE, error |-> "not_integers"]
        ELSE IF \E i \in 1..3 : ints[i].negative
        THEN [valid |-> FALSE, error |-> "negative"]
        ELSE [valid |-> TRUE, error |-> "None"]

VersionChars == {"1", ".", "a", "-", "\n"}

\* release candidates, longer than MaxVersionLen
LongVersions ==
    {<<"1", ".", "1", ".", "1", "r", "c">>,
     <<"1", ".", "1", ".", "1", "r", "c", "1">>,
     <<"1", ".", "1", ".", "1", "r", "c", "1", "-", "a">>,
     <<"1", ".", "1", ".", "1", "r", "1">>}

VersionInputs == SeqsUpTo(VersionChars, MaxVersionLen) \cup LongVersions

VersionInit ==
    /\ flow = "validate_version_format"
    /\ registry = <<>>
    /\ req_ok = EmptyMap
    /\ config_ok = EmptyMap
    /\ \E v \in VersionInputs :
          config = [mode |-> "validate_version_format", version |-> v]
    /\ fs = NoDir
    /\ InitRun

\* returned: the pair validate_version_format gave back
ValidateVersionCall ==
    /\ flow = "validate_version_format" /\ pc = "start"
    /\ returned' = validate_version_format(config.version)
    /\ log' = Append(log, Ev("validate_version_format", "-"))
    /\ pc' = "done"
    /\ UNCHANGED <<flow, heap, registry, req_ok, config_ok, errors, config, fs, fs0, idx,
                   modules, enabled, env_vars, mcp_config, exit_code, message, hist>>

VersionNext == ValidateVersionCall

VersionSpec == VersionInit /\ [][VersionNext]_vars

----------------------------------------------------------------------------
(* MCPInitAPI.prepare_release *)

\* the Formula file: absent, or the version it declares
Formula(exists, version) == [exists |-> exists, version |-> version]

\* the versions asked for: plain, release candidate, two parts, empty
ReleaseVersions ==
    {<<"1", ".", "1", ".", "1">>, <<"1", ".", "1", ".", "1", "r", "c">>,
     <<"1", ".", "1">>, <<>>}

\* what the environment answers to the checks and commands of one call
ReleaseWorlds ==
    [consistent : BOOLEAN,       \* check_version_consistency()["consistent"]
     release_ready : BOOLEAN,    \* validate_release_readiness()[0]
     healthy : BOOLEAN,          \* check_system_health()["status"] = "healthy"
     io_error : BOOLEAN,         \* a check of validate_system raises
     build_ok : BOOLEAN,         \* make dist succeeds
     tarball : BOOLEAN,          \* dist/<name>-<version>.tar.gz exists
     audit_ok : BOOLEAN,         \* validate_formula() on the Formula as it was
     audit_after : BOOLEAN]      \* validate_formula() on the rewritten Formula

\* validate_formula(): (valid, issues)
validate_formula(formula, audit_ok) ==
    IF ~formula.exists THEN [valid |-> FALSE, issues |-> <<"formula_not_found">>]
    ELSE IF ~audit_ok THEN [valid |-> FALSE, issues |-> <<"formula_issue">>]
    ELSE [valid |-> TRUE, issues |-> <<>>]

\* validate_system(): version consistency, release readiness, health and the
\* Formula, each adding its issues and clearing "valid" when it fails
validate_system(formula, world) ==
    LET f == validate_formula(formula, world.audit_ok)
    IN  [raises |-> world.io_error,
         valid |-> world.consistent /\ world.release_ready /\ world.healthy /\ f.valid,
         issues |-> (IF world.consistent THEN <<>> ELSE <<"discrepancy">>)
                    \o (IF world.release_ready THEN <<>> ELSE <<"release_issue">>)
                    \o (IF world.healthy THEN <<>> ELSE <<"critical_issue">>)
                    \o f.issues]

\* update_formula_for_release(version): builds the tarball, writes the version
\* into the Formula (update_formula_version, FileNotFoundError when the Formula
\* is absent) and validates it; every exception ends as an issue
update_formula_for_release(formula, version, world) ==
    IF ~world.build_ok
    THEN [formula |-> formula, formula_updated |-> FALSE, validation_passed |-> FALSE,
          issues |-> <<"build_failed">>]
    ELSE IF ~world.tarball
    THEN [formula |-> formula, formula_updated |-> FALSE, validation_passed |-> FALSE,
          issues |-> <<"tarball_not_found">>]
    ELSE IF ~formula.exists
    THEN [formula |-> formula, formula_updated |-> FALSE, validation_passed |-> FALSE,
          issues |-> <<"update_failed">>]
    ELSE LET written == Formula(TRUE, version)
             v == validate_formula(written, world.audit_after)
         IN  [formula |-> written, formula_updated |-> TRUE,
              validation_passed |-> v.valid, issues |-> v.issues]

ReleaseSteps == <<"system_validation", "formula_update", "release_notes_generation">>

PrepInit ==
    /\ flow = "prepare_release"
    /\ registry = <<>>
    /\ req_ok = EmptyMap
    /\ config_ok = EmptyMap
    /\ \E version \in ReleaseVersions, world \in ReleaseWorlds :
          config = [mode |-> "prepare_release", version |-> version, world |-> world]
    /\ \E formula \in {Formula(FALSE, <<>>), Formula(TRUE, <<"1", ".", "1", ".", "0">>)} :
          fs = [formula |-> formula]
    /\ InitRun

\* returned: the results dict; hist: what validate_system answered
PrepReturn(results) ==
    /\ returned' = results
    /\ pc' = "done"

PrepUnchanged ==
    UNCHANGED <<flow, heap, registry, req_ok, config_ok, errors, config, fs0, idx,
                modules, enabled, env_vars, mcp_config, exit_code, message>>

\* results = {...}; valid_format, format_error = validate_version_format(version)
PrepValidateFormat ==
    /\ flow = "prepare_release" /\ pc = "start"
    /\ LET results == [version |-> config.version, ready |-> FALSE,
                       steps_completed |-> <<>>, issues |-> <<>>]
       IN  IF ~validate_version_format(config.version).valid
           THEN PrepReturn([results EXCEPT !.issues = <<"invalid_version_format">>])
           ELSE returned' = results /\ pc' = "validate_system"
    /\ hist' = [system |-> "none"]
    /\ log' = Append(log, Ev("validate_version_format", "-"))
    /\ UNCHANGED fs
    /\ PrepUnchanged

\* a step that goes on to the Formula although validate_system found issues
PrepValidateSystemGoesOn ==
    /\ flow = "prepare_release" /\ pc = "validate_system"
    /\ LET validation == validate_system(fs.formula, config.world)
       IN  IF validation.raises
           THEN /\ PrepReturn([returned EXCEPT !.issues = Append(@, "preparation_failed")])
                /\ hist' = [system |-> "raised"]
           ELSE /\ hist' = [system |-> IF validation.valid THEN "valid" ELSE "invalid"]
                /\ returned' = [returned EXCEPT
                                  !.steps_completed = Append(@, "system_validation")]
                /\ pc' = "formula_update"
    /\ log' = Append(log, Ev("validate_system", "-"))
    /\ UNCHANGED fs
    /\ PrepUnchanged

\* validation = self.validate_system(); an exception goes to the except clause
PrepValidateSystem ==
    /\ flow = "prepare_release" /\ pc = "validate_system"
    /\ LET validation == validate_system(fs.formula, config.world)
           stepped == [returned EXCEPT
                         !.steps_completed = Append(@, "system_validation")]
       IN  IF validation.raises
           THEN /\ PrepReturn([returned EXCEPT !.issues = Append(@, "preparation_failed")])
                /\ hist' = [system |-> "raised"]
           ELSE /\ hist' = [system |-> IF validation.valid THEN "valid" ELSE "invalid"]
                /\ IF ~validation.valid
                   THEN PrepReturn([stepped EXCEPT !.issues = @ \o validation.issues])
                   ELSE returned' = stepped /\ pc' = "formula_update"
    /\ log' = Append(log, Ev("validate_system", "-"))
    /\ UNCHANGED fs
    /\ PrepUnchanged

\* formula_result = self.formula.update_formula_for_release(version)
PrepUpdateFormula ==
    /\ flow = "prepare_release" /\ pc = "formula_update"
    /\ LET formula_result ==
               update_formula_for_release(fs.formula, config.version, config.world)
           stepped == [returned EXCEPT
                         !.steps_completed = Append(@, "formula_update")]
       IN  /\ fs' = [formula |-> formula_result.formula]
           /\ log' = IF formula_result.formula_updated
                     THEN log \o <<Ev("update_formula_for_release", "-"),
                                   Ev("update_formula_version", "-")>>
                     ELSE Append(log, Ev("update_formula_for_release", "-"))
           /\ IF ~formula_result.validation_passed
              THEN PrepReturn([stepped EXCEPT !.issues = @ \o formula_result.issues])
              ELSE returned' = stepped /\ pc' = "release_notes"
    /\ UNCHANGED hist
    /\ PrepUnchanged

\* release_notes = self.formula.create_release_notes(version); ready = True
PrepReleaseNotes ==
    /\ flow = "prepare_release" /\ pc = "release_notes"
    /\ PrepReturn([returned EXCEPT
                     !.steps_completed = Append(@, "release_notes_generation"),
                     !.ready = TRUE])
    /\ log' = Append(log, Ev("create_release_notes", "-"))
    /\ UNCHANGED <<fs, hist>>
    /\ PrepUnchanged

PrepNext ==
    \/ PrepValidateFormat
    \/ PrepValidateSystem
    \/ PrepUpdateFormula
    \/ PrepReleaseNotes

PrepSpec == PrepInit /\ [][PrepNext]_vars

----------------------------------------------------------------------------
(* utils.validate_project_name called on its own *)

NameChars == {"a", "S", "1", ".", "_", "-", "\n", " "}

Repeat(c, n) == [i \in 1..n |-> c]

\* names at the length limit of the pattern: 100 and 101 characters, and 100
\* characters followed by a newline
LongNames ==
    {Repeat("a", MaxNameTail + 1), Repeat("a", MaxNameTail + 2),
     Append(Repeat("a", MaxNameTail + 1), "\n"),
     <<".">> \o Repeat("a", MaxNameTail)}

NameInputs == SeqsUpTo(NameChars, MaxNameLen) \cup LongNames

NameInit ==
    /\ flow = "validate_project_name"
    /\ registry = <<>>
    /\ req_ok = EmptyMap
    /\ config_ok = EmptyMap
    /\ \E n \in NameInputs :
          config = [mode |-> "validate_project_name", project_name |-> n]
    /\ fs = NoDir
    /\ InitRun

\* returned: the boolean validate_project_name gave back
ValidateNameCall ==
    /\ flow = "validate_project_name" /\ pc = "start"
    /\ returned' = validate_project_name(config.project_name)
    /\ log' = Append(log, Ev("validate_project_name", "-"))
    /\ pc' = "done"
    /\ UNCHANGED <<flow, heap, registry, req_ok, config_ok, errors, config, fs, fs0, idx,
                   modules, enabled, env_vars, mcp_config, exit_code, message, hist>>

NameNext == ValidateNameCall

NameSpec == NameInit /\ [][NameNext]_vars

----------------------------------------------------------------------------
(* Properties *)

\* the lines of a text file: its pieces between newlines, the last newline
\* ending the last line; an absent or empty file has none
FileLines(file) ==
    IF ~file.exists \/ file.text = <<>> THEN <<>>
    ELSE IF file.text[Len(file.text)] = "\n"
         THEN Split(SubSeq(file.text, 1, Len(file.text) - 1))
         ELSE Split(file.text)

UnknownNames(names) == {n \in Range(names) : n \notin Range(registry)}

LogOps == {log[i].op : i \in DOMAIN log}

At(ops) == {i \in DOMAIN log : log[i].op \in ops}

HookOps == {"pre_install_hook", "post_install_hook"}
ConfigureOps == {"validate_config", "generate_config_files"}
WriteOps == {"write_env_file", "write_mcp_json", "write_setup_instructions",
             "update_gitignore"}

\* the run kept the server maps it found: entries of names it did not select
KeepsOtherServers ==
    \A n \in DOMAIN fs0.mcp.servers \ Range(modules) :
        /\ fs.mcp.kind = "object" /\ fs.mcp.isMap
        /\ n \in DOMAIN fs.mcp.servers
        /\ fs.mcp.servers[n] = fs0.mcp.servers[n]

\* C1: a successful initialize_project leaves in .mcp.json every server entry
\* that was there under a name the run did not select, with its descriptor.
C1_CorePreservesOtherServers ==
    (flow = "core" /\ pc = "done" /\ exit_code = 0) => KeepsOtherServers

\* C2: once _generate_mcp_json has ended on a .mcp.json that parsed as JSON,
\* the file holds the old entries of unselected names unchanged, for every
\* selected module the descriptor it returned, and the other top-level keys.
McpJsonEnded ==
    /\ flow = "main"
    /\ "write_mcp_json" \in LogOps \/ message.kind = "uncaught_type_error"

C2_MainMergesMcpJson ==
    (McpJsonEnded /\ fs0.mcp.kind \notin {"absent", "corrupt"}) =>
        /\ KeepsOtherServers
        /\ \A p \in Range(modules) :
              /\ fs.mcp.kind = "object" /\ fs.mcp.isMap
              /\ p \in DOMAIN fs.mcp.servers /\ p \in DOMAIN returned
              /\ fs.mcp.servers[p] = returned[p]
        /\ fs.mcp.other = fs0.mcp.other

\* C3: a main.py run that asks for a module the registry does not hold ends
\* with exit code 1 and a message naming an unknown module, with the directory
\* as it was and no hook and no generate_config_files called.
C3_MainUnknownModule ==
    (flow = "main" /\ pc = "done" /\ UnknownNames(modules) # {}) =>
        /\ exit_code = 1
        /\ message.names \cap UnknownNames(modules) # {}
        /\ fs = fs0
        /\ LogOps \cap (HookOps \cup {"generate_config_files"}) = {}

\* C4: initialize_project with a module list that enables nothing or holds an
\* unknown name calls no hook, no validate_config, no generate_config_files and
\* writes no consolidated file, and ends in an error naming the unknown modules.
InvalidSelection ==
    get_enabled_plugins(modules) = <<>> \/ UnknownNames(modules) # {}

C4_CoreRejectsInvalidSelection ==
    (flow = "core" /\ pc # "start" /\ InvalidSelection) =>
        /\ LogOps \cap (HookOps \cup ConfigureOps \cup WriteOps) = {}
        /\ fs.env = fs0.env /\ fs.mcp = fs0.mcp /\ fs.instr = fs0.instr
        /\ fs.gitignore = fs0.gitignore /\ fs.generated = fs0.generated
        /\ pc \in {"get_enabled", "validate_requirements", "done"}
        /\ pc = "done" => /\ exit_code = 1
                          /\ message.kind \in {"no_valid_plugins", "requirements_not_met"}
                          /\ UnknownNames(modules) \subseteq message.names

C4_Witness ==
    /\ flow = "core" /\ pc = "done" /\ exit_code = 1
    /\ modules = <<"serena", "bogus">> /\ enabled = <<"serena">>
    /\ message = Msg("requirements_not_met", {"bogus"})

\* C5: initialize_project failing on an unknown module or an unmet requirement
\* leaves the project directory, its own existence included, as it was.
C5_FailedCoreCreatesNothing ==
    (/\ flow = "core" /\ pc = "done" /\ exit_code = 1
     /\ message.kind \in {"no_valid_plugins", "requirements_not_met"}) => fs = fs0

\* C6: a .env written by either flow holds no line for a variable whose value
\* is empty.
C6_NoEmptyValueInEnv ==
    fs.env.header \in {"core", "main"} =>
        \A i \in DOMAIN fs.env.lines : fs.env.lines[i].value # ""

\* C7: a successful run whose modules returned no environment variable leaves
\* no .env where there was none.
C7_NoEnvFileWithoutVariables ==
    (/\ flow \in {"core", "main"} /\ pc = "done" /\ exit_code = 0
     /\ env_vars = <<>> /\ ~fs0.env.exists) => ~fs.env.exists

\* C8: update_gitignore twice with the same patterns leaves the file the
\* first call left.
C8_UpdateGitignoreIdempotent ==
    (flow = "config_manager" /\ pc = "twice") => fs.gitignore = hist

\* C9: after update_gitignore the lines of the file are the lines it had,
\* united with the patterns, each once, in ascending order (in
\* initialize_project: with the seven fixed patterns).
GivenPatterns ==
    IF flow = "config_manager" THEN config.patterns ELSE GitignorePatterns

C9_GitignoreIsSortedUnion ==
    "update_gitignore" \in LogOps =>
        FileLines(fs.gitignore) =
            Sorted(Range(FileLines(fs0.gitignore)) \cup Range(GivenPatterns))

\* C10: in initialize_project every pre_install_hook is over before the first
\* validate_config or generate_config_files, every generate_config_files before
\* the first consolidated write, and all four consolidated writes before the
\* first post_install_hook.
AllBefore(first, then) == \A i \in At(first), j \in At(then) : i < j

HasAll(op) == \A p \in Range(enabled) : Ev(op, p) \in Range(log)

C10_CorePhasesOrdered ==
    flow = "core" =>
        /\ AllBefore({"pre_install_hook"}, ConfigureOps \cup WriteOps)
        /\ At(ConfigureOps) # {} => HasAll("pre_install_hook")
        /\ AllBefore(ConfigureOps, WriteOps)
        /\ At(WriteOps) # {} => HasAll("generate_config_files")
        /\ AllBefore(ConfigureOps \cup WriteOps, {"post_install_hook"})
        /\ At({"post_install_hook"}) # {} => WriteOps \subseteq LogOps

C10_Witness ==
    /\ flow = "core" /\ pc = "done" /\ exit_code = 0
    /\ Len(enabled) = 2 /\ Len(log) = 18

\* C11: the pre-install, generation and post-install phases of
\* initialize_project visit the enabled modules in one order, the order of
\* their registration, whatever the order of the request.
LogPlugins(op) ==
    LET calls == SelectSeq(log, LAMBDA e : e.op = op)
    IN  [i \in DOMAIN calls |-> calls[i].plugin]

IsPrefix(s, t) == Len(s) <= Len(t) /\ s = SubSeq(t, 1, Len(s))

RegistrationOrder(names) == SelectSeq(registry, LAMBDA n : n \in Range(names))

C11_CoreRegistrationOrder ==
    (flow = "core" /\ enabled # <<>>) =>
        /\ enabled = RegistrationOrder(modules)
        /\ \A op \in {"pre_install_hook", "generate_config_files", "post_install_hook"} :
              IsPrefix(LogPlugins(op), enabled)

\* C12: validate_all_requirements returns one error for every requested name
\* that is unknown or whose requirements are unmet, in request order; the run
\* goes on exactly when the list is empty and otherwise fails with a message
\* holding every one of them.
ExpectedErrors ==
    SelectSeq(modules, LAMBDA n : n \notin Range(registry) \/ ~req_ok[n])

RequirementsValidated ==
    /\ flow = "core"
    /\ pc \notin {"start", "get_enabled", "validate_requirements"}
    /\ message.kind # "no_valid_plugins"

C12_AllRequirementErrors ==
    RequirementsValidated =>
        /\ errors = ExpectedErrors
        /\ errors = <<>> <=> message.kind # "requirements_not_met"
        /\ errors # <<>> => /\ pc = "done" /\ exit_code = 1
                            /\ message.names = Range(ExpectedErrors)

C12_Witness ==
    /\ flow = "core" /\ pc = "done" /\ exit_code = 1
    /\ modules = <<"serena", "bogus">>
    /\ errors = <<"serena", "bogus">>
    /\ message = Msg("requirements_not_met", {"serena", "bogus"})

\* C13: a main.py run in which two or more selected modules have unmet
\* requirements ends with a fatal message that names all of them.
FailingModules == {n \in Range(modules) \cap Range(registry) : ~req_ok[n]}

C13_MainReportsAllFailing ==
    (/\ flow = "main" /\ pc = "done"
     /\ UnknownNames(modules) = {} /\ Cardinality(FailingModules) >= 2) =>
        /\ exit_code = 1
        /\ message.kind = "requirements_not_met"
        /\ FailingModules \subseteq message.names

\* C14: when validate_config of the k-th enabled module of initialize_project
\* answers not-ok the run ends in an error naming that module, with no
\* generate_config_files for it or a later module, no consolidated file
\* written and no post_install_hook.
C14_CoreInvalidConfigAborts ==
    flow = "core" =>
        \A k \in DOMAIN enabled :
            (Ev("validate_config", enabled[k]) \in Range(log) /\ ~config_ok[enabled[k]]) =>
                /\ pc = "done" /\ exit_code = 1
                /\ message = Msg("invalid_configuration", {enabled[k]})
                /\ \A j \in k..Len(enabled) :
                      Ev("generate_config_files", enabled[j]) \notin Range(log)
                /\ LogOps \cap (WriteOps \cup {"post_install_hook"}) = {}
                /\ fs.env = fs0.env /\ fs.mcp = fs0.mcp /\ fs.instr = fs0.instr
                /\ fs.gitignore = fs0.gitignore
                /\ fs.generated = {enabled[j] : j \in 1..(k - 1)}

C14_Witness ==
    /\ flow = "core" /\ pc = "done" /\ exit_code = 1
    /\ enabled = <<"serena", "cipher">>
    /\ message = Msg("invalid_configuration", {"cipher"})
    /\ fs.generated = {"serena"}

\* C15: a main.py run with a selected module whose validate_config rejects the
\* options exits with code 1 and has generated no files for that module.
C15_MainInvalidConfigIsFatal ==
    (flow = "main" /\ pc = "done") =>
        \A p \in Range(modules) \cap Range(registry) :
            ~config_ok[p] => exit_code = 1 /\ p \notin fs.generated

\* C16: when generate_config_files of the k-th selected module raises in a
\* main.py run, the run exits with code 1, no later module generates,
\* .mcp.json, .env and the instructions file are not written, no
\* post_install_hook runs, and the files of the modules before k stay.
C16_MainGenerateFailureAborts ==
    (flow = "main" /\ message.kind = "generate_failed") =>
        /\ pc = "done" /\ exit_code = 1
        /\ message.names = {enabled[idx]}
        /\ \A j \in (idx + 1)..Len(enabled) :
              Ev("generate_config_files", enabled[j]) \notin Range(log)
        /\ LogOps \cap (WriteOps \cup {"post_install_hook"}) = {}
        /\ fs.env = fs0.env /\ fs.mcp = fs0.mcp /\ fs.instr = fs0.instr
        /\ fs.generated = {enabled[j] : j \in 1..(idx - 1)}

C16_Witness ==
    /\ flow = "main" /\ pc = "done" /\ exit_code = 1
    /\ enabled = <<"serena", "cipher">>
    /\ message = Msg("generate_failed", {"cipher"})
    /\ fs.generated = {"serena"}

\* C17: an in-place main.py run in a directory that holds a recognised
\* project marker exits with code 1 with no plugin call made and the
\* directory as it was.
InPlaceOnMarker ==
    /\ flow = "main" /\ config.mode = "run" /\ config.in_place
    /\ fs0.files \cap {"package.json", "requirements.txt", "Cargo.toml", "go.mod",
                        "pom.xml", "build.gradle", "composer.json", ".git"} # {}

C17_InPlaceBlockedOnMarker ==
    (InPlaceOnMarker /\ pc # "start") =>
        /\ pc = "done" /\ exit_code = 1
        /\ log = <<>>
        /\ fs = fs0

C17_Witness ==
    /\ InPlaceOnMarker /\ pc = "done" /\ exit_code = 1
    /\ fs0.files = {"package.json"}
    /\ message = Msg("in_place_unsafe", {})

\* C18: a main.py run with a project name validate_project_name rejects ends
\* with exit code 1 and the invalid-project-name message, before the in-place
\* check, the module validation, any plugin call and any creation.
C18_InvalidNameExitsFirst ==
    (/\ flow = "main" /\ config.mode = "run" /\ pc # "start"
     /\ ~validate_project_name(config.project_name)) =>
        /\ pc = "done" /\ exit_code = 1
        /\ message = Msg("invalid_project_name", {})
        /\ modules = <<>> /\ log = <<>>
        /\ fs = fs0

C18_Witness ==
    /\ flow = "main" /\ pc = "done" /\ exit_code = 1
    /\ message = Msg("invalid_project_name", {})
    /\ config.in_place /\ ".git" \in fs0.files
    /\ config.mcp = Given(<<"bogus">>)

\* C20: a main.py run of a non-empty selection of known modules in a directory
\* without .mcp.json writes a .mcp.json whose mcpServers keys are exactly the
\* selected modules.
C20_McpServersAreSelection ==
    (/\ flow = "main" /\ "write_mcp_json" \in LogOps
     /\ fs0.mcp.kind = "absent"
     /\ modules # <<>> /\ UnknownNames(modules) = {}) =>
        /\ fs.mcp.kind = "object" /\ fs.mcp.isMap
        /\ DOMAIN fs.mcp.servers = Range(modules)

C20_Witness ==
    /\ flow = "main" /\ pc = "done" /\ exit_code = 0
    /\ fs0.mcp.kind = "absent"
    /\ Range(registry) = {"serena", "cipher"} /\ modules = <<"cipher">>
    /\ returned = [p \in {"cipher"} |-> EmptyMap]
    /\ fs.mcp.kind = "object" /\ DOMAIN fs.mcp.servers = {"cipher"}

\* C19: validate_project_name answers true exactly for the names of 1 to 100
\* characters that start with an ASCII letter or digit and go on with ASCII
\* letters, digits, '.', '_' or '-' only; a name ending in a newline is
\* rejected.
IsPlainName(n) ==
    /\ Len(n) \in 1..100
    /\ n[1] \in Letters \cup Digits
    /\ \A i \in 2..Len(n) : n[i] \in Letters \cup Digits \cup {".", "_", "-"}

C19_ValidNameExactly ==
    (flow = "validate_project_name" /\ pc = "done") =>
        (returned <=> IsPlainName(config.project_name))

\* C21: a main.py run whose --mcp value holds no module name once split and
\* trimmed exits with code 1 and writes no consolidated file.
EmptySelection ==
    /\ flow = "main" /\ config.mode = "run"
    /\ config.mcp.given
    /\ \A i \in DOMAIN config.mcp.items : config.mcp.items[i] = " "

C21_EmptySelectionFails ==
    (EmptySelection /\ pc = "done") =>
        /\ exit_code = 1
        /\ LogOps \cap WriteOps = {}

\* C22: get_enabled_plugins returns the requested names that are registry
\* keys, each once, drops the unknown ones without raising and leaves the
\* registry as it was.
EnabledReturned ==
    /\ flow = "core"
    /\ pc \notin {"start", "get_enabled"}

SecondRunDone ==
    /\ flow = "core" /\ ~FirstRun
    /\ pc = "done" /\ exit_code = 0
    /\ env_vars = hist.env_vars /\ returned = hist.returned

C25_CoreRunIdempotent ==
    SecondRunDone =>
        /\ fs.env = hist.fs.env
        /\ fs.mcp = hist.fs.mcp
        /\ fs.instr = hist.fs.instr
        /\ fs.gitignore = hist.fs.gitignore

\* C23: after discovery no registry entry comes from a directory that failed
\* to load or from a "__" directory, and every other directory that loads is
\* registered (its declared name is a key), whatever the scan order.
Discovered == flow = "plugin_manager" /\ pc = "constructed" /\ log = <<>>

LoadableDirs ==
    {d \in PluginDirs : d # "__pycache__" /\ config.world.outcome[d] = "ok"}

Reloaded == flow = "plugin_manager" /\ log # <<>>

EntryOf(plugins, key) == {e \in Range(plugins) : e.key = key}

C26_ReloadTouchesOneEntry ==
    Reloaded =>
        LET name == log[Len(log)].plugin
        IN  /\ \A k \in {"serena", "cipher", "__pycache__"} \ {name} :
                  EntryOf(registry, k) = EntryOf(hist, k)
            /\ EntryOf(hist, name) = {} => returned = FALSE /\ registry = hist

\* C27: in every state of a PluginManager each registry key is the metadata
\* name declared by the instance stored under it, and no key is held twice.
C27_KeyIsMetadataName ==
    (flow = "plugin_manager") =>
        /\ \A i \in DOMAIN registry :
              registry[i].key = config.world.name[registry[i].dir]
        /\ \A i, j \in DOMAIN registry :
              registry[i].key = registry[j].key => i = j

C27_Witness ==
    /\ Reloaded /\ returned = TRUE
    /\ config.world.name["serena"] = "cipher"
    /\ config.world.name["cipher"] = "cipher"
    /\ Len(registry) = 1 /\ registry[1].key = "cipher"

\* C24: merge_json_file on a target that holds a JSON object writes the deep
\* merge of that object with new_data: a key that is a mapping on both sides
\* merged recursively, any other key of new_data with new_data's value, a key
\* of the existing content alone with its value; on an absent target it
\* writes new_data.
RECURSIVE DeepMerged(_, _)
DeepMerged(a, b) ==
    [k \in DOMAIN a \cup DOMAIN b |->
        IF k \notin DOMAIN b THEN a[k]
        ELSE IF k \in DOMAIN a /\ a[k].t = "dict" /\ b[k].t = "dict"
        THEN [t |-> "dict", v |-> DeepMerged(a[k].v, b[k].v)]
        ELSE b[k]]

C28_DeepMergeIdempotentAndPure ==
    (flow = "merge_json_file" /\ pc \in {"merged", "twice"}) =>
        /\ \A a \in DOMAIN hist : heap[a] = hist[a]
        /\ pc = "twice" =>
              ValueAt(heap, returned.result) = ValueAt(heap, returned.base)

C28_Witness ==
    /\ flow = "merge_json_file" /\ pc = "twice"
    /\ \E k \in DOMAIN heap[returned.update] :
          /\ heap[returned.update][k].t = "ref"
          /\ k \in DOMAIN heap[returned.base] /\ heap[returned.base][k].t = "ref"
          /\ heap[returned.base][k] # heap[returned.update][k]

\* C30: validate_version_format returns (True, None) for every non-empty
\* version that matches version_pattern, and (False, message) for every other
\* text.
C30_FormatAcceptsPattern ==
    (flow = "validate_version_format" /\ pc = "done") =>
        /\ returned.valid <=> (config.version # <<>> /\ version_pattern(config.version))
        /\ returned.valid <=> returned.error = "None"

\* C29: prepare_release never raises; steps_completed is always a prefix of
\* system_validation, formula_update, release_notes_generation; the Formula is
\* never updated when the version format is invalid or system validation
\* fails; ready is true only with all three steps completed and no issues.
FormulaUpdated == \E i \in 1..Len(log) : log[i].op = "update_formula_version"

C29_PrepareReleaseInOrder ==
    (flow = "prepare_release" /\ pc # "start") =>
        /\ message = NoMessage /\ exit_code = 0
        /\ IsPrefix(returned.steps_completed, ReleaseSteps)
        /\ (~validate_version_format(config.version).valid \/ hist.system # "valid") =>
              (~FormulaUpdated /\ fs = fs0)
        /\ returned.ready =>
              (returned.steps_completed = ReleaseSteps /\ returned.issues = <<>>)

C29_Witness ==
    /\ flow = "prepare_release" /\ pc = "done"
    /\ returned.ready /\ FormulaUpdated
    /\ fs.formula.version = config.version /\ fs # fs0

====
